---- MODULE Spec2Model ----
(***************************************************************************)
(* Model of src/src/agents/tools.py: the weather agent's conversation loop, *)
(* its single tool (geocode -> forecast -> Fahrenheit) and its token        *)
(* accounting.                                                              *)
(*                                                                          *)
(* Python values are tagged tuples so that values of different Python       *)
(* types can be compared: None, str, int, float (in tenths), dict, list.    *)
(* A str is a sequence of atoms: console input is spelled character by      *)
(* character (strip() and lower() work on it), literals of the program are  *)
(* one atom.  A dict is a function from key names to values.                *)
(***************************************************************************)
EXTENDS Integers, Sequences, FiniteSets, TLC

VARIABLES
    pc,                    \* position of conversation_loop
    messages,              \* the transcript (list of message dicts)
    totals,                \* total_prompt, total_completion, total_reasoning, total_tokens
    city_query,            \* the stripped input line of the current turn
    tool_calls,            \* msg.tool_calls of the first response, not yet iterated
    assistant_call_msg,    \* the assistant tool-call shell being built
    tool_output_messages,  \* the tool messages being built
    error,                 \* the exception that ended the session, if any
    hist,                  \* history of the session (what was read, called and received)
    probe                  \* a pure function under test: its inputs and its result

vars == <<pc, messages, totals, city_query, tool_calls, assistant_call_msg,
          tool_output_messages, error, hist, probe>>

-----------------------------------------------------------------------------
(* Python values *)

None == <<"None">>
PyStr(s) == <<"str", s>>
PyInt(n) == <<"int", n>>
PyNum(tenths) == <<"num", tenths>>
PyDict(d) == <<"dict", d>>
PyList(l) == <<"list", l>>
PyObj(attrs) == <<"obj", attrs>>

\* a str literal of the program, as one atom
Lit(a) == PyStr(<<a>>)
EmptyStr == PyStr(<<>>)
EmptyDict == [k \in {} |-> None]

\* the str json.dumps(v) returns: it is never empty and json.loads gives v back
JsonText(v) == <<"json", v>>

IsNone(v) == v = None
IsInt(v) == v[1] = "int"
IsDict(v) == v[1] = "dict"

\* bool(v)
Truthy(v) ==
    CASE v[1] = "None" -> FALSE
      [] v[1] = "str"  -> v[2] # <<>>
      [] v[1] = "json" -> TRUE
      [] v[1] = "int"  -> v[2] # 0
      [] v[1] = "num"  -> v[2] # 0
      [] v[1] = "dict" -> DOMAIN v[2] # {}
      [] v[1] = "list" -> v[2] # <<>>
      [] v[1] = "obj"  -> TRUE

\* getattr(o, name, default): the default is returned only when o has no such
\* attribute; an attribute that is set to None is returned as None
GetAttr(o, name, default) ==
    IF o[1] = "obj" /\ name \in DOMAIN o[2] THEN o[2][name] ELSE default

\* d.get(k)
Get(d, k) == IF k \in DOMAIN d THEN d[k] ELSE None

\* {**a, **b}: the keys of b override those of a
Merge(a, b) == [k \in DOMAIN a \cup DOMAIN b |-> IF k \in DOMAIN b THEN b[k] ELSE a[k]]

\* d.setdefault(k, v), as the dict afterwards
SetDefault(d, k, v) == IF k \in DOMAIN d THEN d ELSE Merge(d, [x \in {k} |-> v])

-----------------------------------------------------------------------------
(* Tool implementation *)

\* round(x, 1) of x = n/d tenths (d > 0); c*9/5+32 of a reading with one
\* decimal is never half way between two tenths
RoundDiv(n, d) == (2 * n + d) \div (2 * d)
\* the tenths are cut off instead of rounded
c_to_f_Truncated(c) == PyNum((c[2] * 9) \div 5 + 320)

c_to_f(c) == PyNum(RoundDiv(c[2] * 9, 5) + 320)

\* What the geocoding request does: it raises (timeout, connection error,
\* non-2xx status, a body that is no JSON object) or returns the parsed body.
Raise(text) == [kind |-> "raise", text |-> text]
Body(data) == [kind |-> "ok", data |-> data]

geocode_city(city, http) ==
    IF http.kind = "raise"
    THEN [error |-> PyStr(http.text), city |-> city]
    ELSE LET results == Get(http.data, "results")
             first == IF Truthy(results) THEN results[2][1] ELSE EmptyDict
         IN  IF DOMAIN first = {}
             THEN [error |-> Lit("city_not_found"), city |-> city]
             ELSE [city |-> city,
                   resolved_name |-> Get(first, "name"),
                   country |-> Get(first, "country"),
                   latitude |-> Get(first, "latitude"),
                   longitude |-> Get(first, "longitude")]
\* the Celsius reading is returned as the Fahrenheit one
fetch_weather_NoConversion(latitude, longitude, http) ==
    IF http.kind = "raise"
    THEN [error |-> PyStr(http.text), latitude |-> latitude, longitude |-> longitude]
    ELSE LET current == IF "current" \in DOMAIN http.data
                        THEN http.data["current"] ELSE EmptyDict
             temp_c == Get(current, "temperature_2m")
         IN  IF IsNone(temp_c)
             THEN [error |-> Lit("temperature_unavailable"),
                   latitude |-> latitude, longitude |-> longitude]
             ELSE [latitude |-> latitude,
                   longitude |-> longitude,
                   temperature_c |-> temp_c,
                   temperature_f |-> temp_c,
                   timestamp |-> Get(current, "time")]

fetch_weather(latitude, longitude, http) ==
    IF http.kind = "raise"
    THEN [error |-> PyStr(http.text), latitude |-> latitude, longitude |-> longitude]
    ELSE LET current == IF "current" \in DOMAIN http.data
                        THEN http.data["current"] ELSE EmptyDict
             temp_c == Get(current, "temperature_2m")
         IN  IF IsNone(temp_c)
             THEN [error |-> Lit("temperature_unavailable"),
                   latitude |-> latitude, longitude |-> longitude]
             ELSE [latitude |-> latitude,
                   longitude |-> longitude,
                   temperature_c |-> temp_c,
                   temperature_f |-> c_to_f(temp_c),
                   timestamp |-> Get(current, "time")]

\* the forecast is fetched whatever the geocoding returned
get_weather_by_city_NoEarlyReturn(city, geoHttp, fcHttp) ==
    LET geo == geocode_city(city, geoHttp)
        lat == Get(geo, "latitude")
        lon == Get(geo, "longitude")
    IN  [result |-> Merge(Merge([city |-> city], geo), fetch_weather(lat, lon, fcHttp)),
         geo |-> geo, fetched |-> <<<<lat, lon>>>>]
\* a coordinate that is falsy (0.0) counts as missing
get_weather_by_city_FalsyCoordinates(city, geoHttp, fcHttp) ==
    LET geo == geocode_city(city, geoHttp)
        lat == Get(geo, "latitude")
        lon == Get(geo, "longitude")
    IN  IF Truthy(Get(geo, "error"))
        THEN [result |-> Merge([city |-> city], geo), geo |-> geo, fetched |-> <<>>]
        ELSE IF ~Truthy(lat) \/ ~Truthy(lon)
        THEN [result |-> Merge([city |-> city, error |-> Lit("coordinates_missing")], geo),
              geo |-> geo, fetched |-> <<>>]
        ELSE [result |-> Merge(Merge([city |-> city], geo), fetch_weather(lat, lon, fcHttp)),
              geo |-> geo, fetched |-> <<<<lat, lon>>>>]

\* The dict get_weather_by_city returns, with the requests it made:
\* fetched is the sequence of (latitude, longitude) fetch_weather was called with.
get_weather_by_city(city, geoHttp, fcHttp) ==
    LET geo == geocode_city(city, geoHttp)
        lat == Get(geo, "latitude")
        lon == Get(geo, "longitude")
    IN  IF Truthy(Get(geo, "error"))
        THEN [result |-> Merge([city |-> city], geo), geo |-> geo, fetched |-> <<>>]
        ELSE IF IsNone(lat) \/ IsNone(lon)
        THEN [result |-> Merge([city |-> city, error |-> Lit("coordinates_missing")], geo),
              geo |-> geo, fetched |-> <<>>]
        ELSE [result |-> Merge(Merge([city |-> city], geo), fetch_weather(lat, lon, fcHttp)),
              geo |-> geo, fetched |-> <<<<lat, lon>>>>]

ToolName == "get_weather_by_city"

\* execute_tool(name, args): get_weather_by_city(**args) raises TypeError unless
\* the keys of args are exactly its one parameter
execute_tool(name, args, geoHttp, fcHttp) ==
    IF name = Lit(ToolName)
    THEN IF DOMAIN args = {"city"}
         THEN LET r == get_weather_by_city(args["city"], geoHttp, fcHttp)
              IN  [raised |-> None, result |-> r.result, geocoded |-> <<r.geo>>,
                   fetched |-> r.fetched]
         ELSE [raised |-> Lit("TypeError"), result |-> EmptyDict, geocoded |-> <<>>,
               fetched |-> <<>>]
    ELSE [raised |-> None, result |-> [error |-> Lit("unknown_tool"), name |-> name],
          geocoded |-> <<>>, fetched |-> <<>>]

-----------------------------------------------------------------------------
(* Token accounting *)

extract_usage(completion) ==
    LET u == completion.usage
        details == GetAttr(u, "completion_tokens_details", None)
        reasoning == IF Truthy(details)
                     THEN GetAttr(details, "reasoning_tokens", PyInt(0))
                     ELSE PyInt(0)
    IN  [prompt |-> GetAttr(u, "prompt_tokens", PyInt(0)),
         completion |-> GetAttr(u, "completion_tokens", PyInt(0)),
         reasoning |-> reasoning,
         total |-> GetAttr(u, "total_tokens", PyInt(0))]

\* The order in which one line of the loop adds a usage record to the totals
FoldOrder == <<"total", "prompt", "completion", "reasoning">>

\* the totals are assigned, not added to
Fold_Assign(t, u) ==
    [totals |-> [k \in DOMAIN t |-> IF IsInt(u[k]) THEN u[k][2] ELSE t[k]],
     raised |-> IF \A k \in DOMAIN t : IsInt(u[k]) THEN None ELSE Lit("TypeError")]

\* total_tokens += u["total"]; total_prompt += u["prompt"]; ...: int + None
\* raises TypeError, and the additions before it have been made
Fold(t, u) ==
    LET bad == {i \in 1..Len(FoldOrder) : ~IsInt(u[FoldOrder[i]])}
        stop == IF bad = {} THEN Len(FoldOrder) + 1
                ELSE CHOOSE i \in bad : \A j \in bad : i <= j
        done == {FoldOrder[i] : i \in 1..(stop - 1)}
    IN  [totals |-> [k \in DOMAIN t |-> IF k \in done THEN t[k] + u[k][2] ELSE t[k]],
         raised |-> IF bad = {} THEN None ELSE Lit("TypeError")]

ZeroTotals == [prompt |-> 0, completion |-> 0, reasoning |-> 0, total |-> 0]

-----------------------------------------------------------------------------
(* Console input *)

Whitespace == {" ", "\t"}
Upper == <<"A","B","C","D","E","F","G","H","I","J","K","L","M",
           "N","O","P","Q","R","S","T","U","V","W","X","Y","Z">>
LowerCase == <<"a","b","c","d","e","f","g","h","i","j","k","l","m",
               "n","o","p","q","r","s","t","u","v","w","x","y","z">>

RECURSIVE LStrip(_)
LStrip(s) == IF s # <<>> /\ Head(s) \in Whitespace THEN LStrip(Tail(s)) ELSE s

RECURSIVE RStrip(_)
RStrip(s) ==
    IF s # <<>> /\ s[Len(s)] \in Whitespace THEN RStrip(SubSeq(s, 1, Len(s) - 1)) ELSE s

\* only the leading white space is removed
Strip_LeftOnly(s) == LStrip(s)

\* str.strip()
Strip(s) == RStrip(LStrip(s))

LowerChar(ch) ==
    IF \E i \in 1..Len(Upper) : Upper[i] = ch
    THEN LowerCase[CHOOSE i \in 1..Len(Upper) : Upper[i] = ch]
    ELSE ch

\* str.lower()
Lower(s) == [i \in 1..Len(s) |-> LowerChar(s[i])]

ExitTokens_NoColonQ == {<<"/","e","x","i","t">>, <<"e","x","i","t">>, <<"q","u","i","t">>}

ExitTokens == {<<"/","e","x","i","t">>, <<"e","x","i","t">>, <<"q","u","i","t">>, <<":","q">>}
\* "?" is not a help command
HelpTokens_NoQuestionMark == {<<"/","h","e","l","p">>, <<"h","e","l","p">>}

HelpTokens == {<<"/","h","e","l","p">>, <<"h","e","l","p">>, <<"?">>}

\* What input("City> ") can give: end of input, or a line
EOF == [kind |-> "eof"]
Line(s) == [kind |-> "line", text |-> s]

Tokyo == <<"T","o","k","y","o">>
Paris == <<"P","a","r","i","s">>

\* The lines typed when the console commands are explored
InputLines ==
    {<<>>, <<" ", "\t">>,
     <<"/","e","x","i","t">>, <<"e","x","i","t">>, <<"q","u","i","t">>, <<":","q">>,
     <<"E","X","I","T">>, <<" ","Q","u","i","t"," ">>,
     <<"/","h","e","l","p">>, <<"h","e","l","p">>, <<"?">>, <<" ","H","e","l","p">>,
     Tokyo, <<" ">> \o Paris \o <<" ">>}

\* The lines typed when the turns of a session are explored
SessionLines == {<<"e","x","i","t">>, <<"/","h","e","l","p">>, <<" ">> \o Tokyo \o <<" ">>}

-----------------------------------------------------------------------------
(* The completion service and the two HTTP services, as the session meets them *)

MaxTurns == 2       \* user turns explored in one session
MaxToolCalls == 2   \* tool invocations the model requests in one session

\* completion.choices[0].message and completion.usage
Completion(content, tcs, usage) ==
    [kind |-> "ok", message |-> [content |-> content, tool_calls |-> tcs], usage |-> usage]
APIError == [kind |-> "raise"]

UsageFull ==
    PyObj([prompt_tokens |-> PyInt(2), completion_tokens |-> PyInt(1),
           total_tokens |-> PyInt(3),
           completion_tokens_details |-> PyObj([reasoning_tokens |-> PyInt(1)])])
UsageNoDetails ==
    PyObj([prompt_tokens |-> PyInt(1), completion_tokens |-> PyInt(1),
           total_tokens |-> PyInt(2), completion_tokens_details |-> None])
UsageNullReasoning ==
    PyObj([prompt_tokens |-> PyInt(1), completion_tokens |-> PyInt(1),
           total_tokens |-> PyInt(2),
           completion_tokens_details |-> PyObj([reasoning_tokens |-> None])])
SessionUsages == {UsageFull, UsageNoDetails, UsageNullReasoning}

Contents == {None, Lit("68F in Oslo")}

\* name and arguments of the tool invocations the model emits
Oslo == Lit("Oslo")
CallKinds ==
    {[name |-> Lit(ToolName), arguments |-> JsonText(PyDict([city |-> Oslo]))],
     [name |-> Lit(ToolName), arguments |-> JsonText(PyDict(EmptyDict))],
     [name |-> Lit("get_time"), arguments |-> EmptyStr],
     [name |-> Lit(ToolName), arguments |-> JsonText(PyDict([city |-> Oslo, units |-> Lit("C")]))],
     [name |-> Lit(ToolName), arguments |-> Lit("{city")]}

CallId(i) == Lit("call_" \o ToString(i))

ToolCall(i, kind) ==
    [id |-> CallId(i), type |-> "function",
     function |-> [name |-> kind.name, arguments |-> kind.arguments]]

\* the non-empty lists of at most n tool invocations, ids unique within a list
ToolCallLists(n) ==
    UNION {{[i \in 1..k |-> ToolCall(i, f[i])] : f \in [1..k -> CallKinds]} : k \in 1..n}

FirstResponses(n) ==
    {Completion(c, t, u) :
        c \in Contents,
        t \in {None, PyList(<<>>)} \cup {PyList(l) : l \in ToolCallLists(n)},
        u \in SessionUsages}

SecondResponses ==
    {Completion(c, t, u) :
        c \in Contents,
        t \in {None, PyList(<<ToolCall(1, [name |-> Lit(ToolName), arguments |-> EmptyStr])>>)},
        u \in SessionUsages}

Place == [name |-> Oslo, country |-> Lit("Norway"),
          latitude |-> PyNum(599), longitude |-> PyNum(107)]
SessionGeo == {Body([results |-> PyList(<<Place>>)]), Body([results |-> PyList(<<>>)])}
SessionForecast ==
    {Body([current |-> [temperature_2m |-> PyNum(200), time |-> Lit("2025-01-01T12:00")]])}

-----------------------------------------------------------------------------
(* conversation_loop *)

SystemPrompt == Lit("You are a concise weather assistant.")

NoHistory ==
    [turns |-> 0,          \* user turns begun
     invocations |-> 0,    \* tool invocations requested so far in the session
     input |-> [kind |-> "none"],  \* what the last input() gave
     start |-> 0,          \* len(messages) when the current turn's line was read
     calls |-> <<>>,       \* len(messages) at each model call of the current turn
     requested |-> <<>>,   \* the tool invocations of the current turn's first response
     dispatched |-> <<>>,  \* the execute_tool calls of the current turn
     ignored |-> None,     \* tool_calls of the current turn's second response
     received |-> ZeroTotals]  \* sum of the usage counts of all responses received

\* no pure function is under test in a session
NoProbe == [fn |-> "none", stage |-> "none"]

Init ==
    /\ pc = "Idle"
    /\ messages = <<[role |-> "system", content |-> SystemPrompt]>>
    /\ totals = ZeroTotals
    /\ city_query = <<>>
    /\ tool_calls = <<>>
    /\ assistant_call_msg = None
    /\ tool_output_messages = <<>>
    /\ error = None
    /\ hist = NoHistory
    /\ probe = NoProbe

\* the count a response reports for one of the four totals, 0 when it reports none
Reported(completion, field) ==
    LET u == completion.usage
        d == GetAttr(u, "completion_tokens_details", None)
        v == IF field = "reasoning" THEN GetAttr(d, "reasoning_tokens", None)
             ELSE GetAttr(u, field \o "_tokens", None)
    IN  IF IsInt(v) THEN v[2] ELSE 0

Received(h, completion) ==
    [h EXCEPT !.received = [k \in DOMAIN @ |-> @[k] + Reported(completion, k)]]

\* lines 190-204: read a line; leave, print the help, or begin a turn
ReadInputFrom(lines) ==
    /\ pc = "Idle"
    /\ \E in \in {EOF} \cup {Line(l) : l \in lines} :
         LET q == IF in.kind = "eof" THEN city_query ELSE Strip(in.text)
             lower == Lower(q)
         IN  /\ city_query' = q
             /\ IF in.kind = "eof" \/ q = <<>> \/ lower \in ExitTokens
                THEN /\ pc' = "Closed"
                     /\ hist' = [hist EXCEPT !.input = in]
                     /\ UNCHANGED messages
                ELSE IF lower \in HelpTokens
                THEN /\ pc' = "Idle"
                     /\ hist' = [hist EXCEPT !.input = in]
                     /\ UNCHANGED messages
                ELSE /\ hist.turns < MaxTurns
                     /\ messages' = Append(messages, [role |-> "user", content |-> PyStr(q)])
                     /\ pc' = "AwaitingFirstCompletion"
                     /\ hist' = [hist EXCEPT !.turns = @ + 1, !.input = in,
                                             !.start = Len(messages), !.calls = <<>>,
                                             !.requested = <<>>, !.dispatched = <<>>,
                                             !.ignored = None]
    /\ UNCHANGED <<totals, tool_calls, assistant_call_msg, tool_output_messages, error, probe>>

\* lines 207-225 and 257-259: the first model call, its usage, and the branch
FirstCompletionFrom(responses) ==
    /\ pc = "AwaitingFirstCompletion"
    /\ \E first \in {APIError} \cup responses :
         IF first.kind = "raise"
         THEN /\ pc' = "Crashed"
              /\ error' = Lit("APIError")
              /\ hist' = [hist EXCEPT !.calls = Append(@, Len(messages))]
              /\ UNCHANGED <<messages, totals, tool_calls, assistant_call_msg,
                             tool_output_messages>>
         ELSE LET u1 == Fold(totals, extract_usage(first))
                  msg == first.message
                  h == Received([hist EXCEPT !.calls = Append(@, Len(messages))], first)
              IN  /\ totals' = u1.totals
                  /\ IF Truthy(u1.raised)
                     THEN /\ pc' = "Crashed"
                          /\ error' = u1.raised
                          /\ hist' = h
                          /\ UNCHANGED <<messages, tool_calls, assistant_call_msg,
                                         tool_output_messages>>
                     ELSE IF Truthy(msg.tool_calls)
                     THEN /\ pc' = "AwaitingToolExecution"
                          /\ tool_calls' = msg.tool_calls[2]
                          /\ assistant_call_msg' =
                                [role |-> "assistant", content |-> None, tool_calls |-> <<>>]
                          /\ tool_output_messages' = <<>>
                          /\ hist' = [h EXCEPT !.requested = msg.tool_calls[2],
                                               !.invocations = @ + Len(msg.tool_calls[2])]
                          /\ UNCHANGED <<messages, error>>
                     ELSE /\ pc' = "Idle"
                          /\ messages' =
                                Append(messages, [role |-> "assistant", content |-> msg.content])
                          /\ hist' = h
                          /\ UNCHANGED <<tool_calls, assistant_call_msg,
                                         tool_output_messages, error>>
    /\ UNCHANGED <<city_query, probe>>

\* args["city"] = city_query in place of args.setdefault("city", city_query)
BackfilledArgs_Overwrite(arguments, query) ==
    IF ~Truthy(arguments)
    THEN [raised |-> None, args |-> [city |-> PyStr(query)]]
    ELSE IF arguments[1] # "json"
    THEN [raised |-> Lit("JSONDecodeError"), args |-> EmptyDict]
    ELSE IF ~IsDict(arguments[2])
    THEN [raised |-> Lit("AttributeError"), args |-> EmptyDict]
    ELSE [raised |-> None, args |-> Merge(arguments[2][2], [city |-> PyStr(query)])]

\* json.loads(fn.arguments) if fn.arguments else {}, then args.setdefault("city", ...):
\* the dict dispatched, or the exception raised before the dispatch
BackfilledArgs(arguments, query) ==
    IF ~Truthy(arguments)
    THEN [raised |-> None, args |-> [city |-> PyStr(query)]]
    ELSE IF arguments[1] # "json"
    THEN [raised |-> Lit("JSONDecodeError"), args |-> EmptyDict]
    ELSE IF ~IsDict(arguments[2])
    THEN [raised |-> Lit("AttributeError"), args |-> EmptyDict]
    ELSE [raised |-> None, args |-> SetDefault(arguments[2][2], "city", PyStr(query))]

\* lines 232-236: the invocation as the assistant turn records it
ToolCallEntry(tc, args) ==
    [id |-> tc.id, type |-> "function",
     function |-> [name |-> tc.function.name, arguments |-> JsonText(PyDict(args))]]

ToolMessage_NameAsId(tc, result) ==
    [role |-> "tool", tool_call_id |-> tc.function.name,
     content |-> JsonText(PyDict(result))]

\* lines 237-241: the tool turn that answers the invocation
ToolMessage(tc, result) ==
    [role |-> "tool", tool_call_id |-> tc.id, content |-> JsonText(PyDict(result))]

\* lines 226-241: one iteration of the loop over msg.tool_calls
DispatchTool ==
    /\ pc = "AwaitingToolExecution"
    /\ tool_calls # <<>>
    /\ \E geoHttp \in SessionGeo, fcHttp \in SessionForecast :
         LET tc == Head(tool_calls)
             fn == tc.function
             parsed == BackfilledArgs(fn.arguments, city_query)
             args == parsed.args
             run == execute_tool(fn.name, args, geoHttp, fcHttp)
         IN  IF Truthy(parsed.raised)
             THEN /\ pc' = "Crashed"
                  /\ error' = parsed.raised
                  /\ UNCHANGED <<tool_calls, assistant_call_msg, tool_output_messages, hist>>
             ELSE /\ hist' = [hist EXCEPT !.dispatched =
                                 Append(@, [name |-> fn.name, args |-> args,
                                            geocoded |-> run.geocoded,
                                            fetched |-> run.fetched,
                                            raised |-> run.raised,
                                            result |-> run.result])]
                  /\ IF Truthy(run.raised)
                     THEN /\ pc' = "Crashed"
                          /\ error' = run.raised
                          /\ UNCHANGED <<tool_calls, assistant_call_msg, tool_output_messages>>
                     ELSE /\ assistant_call_msg' =
                                [assistant_call_msg EXCEPT !.tool_calls =
                                    Append(@, ToolCallEntry(tc, args))]
                          /\ tool_output_messages' =
                                Append(tool_output_messages, ToolMessage(tc, run.result))
                          /\ tool_calls' = Tail(tool_calls)
                          /\ UNCHANGED <<pc, error>>
    /\ UNCHANGED <<messages, totals, city_query, probe>>

\* the assistant tool-call turn is not appended
AppendAssistantCall_Skipped ==
    /\ pc = "AwaitingToolExecution"
    /\ tool_calls = <<>>
    /\ pc' = "ExtendingTranscript"
    /\ UNCHANGED <<messages, totals, city_query, tool_calls, assistant_call_msg,
                   tool_output_messages, error, hist, probe>>

\* line 243: messages.append(assistant_call_msg)
AppendAssistantCall ==
    /\ pc = "AwaitingToolExecution"
    /\ tool_calls = <<>>
    /\ messages' = Append(messages, assistant_call_msg)
    /\ pc' = "ExtendingTranscript"
    /\ UNCHANGED <<totals, city_query, tool_calls, assistant_call_msg,
                   tool_output_messages, error, hist, probe>>
\* the tool turns take the place of the last turn instead of following it
ExtendToolOutputs_Overwriting ==
    /\ pc = "ExtendingTranscript"
    /\ messages' = SubSeq(messages, 1, Len(messages) - 1) \o tool_output_messages
    /\ pc' = "AwaitingSecondCompletion"
    /\ UNCHANGED <<totals, city_query, tool_calls, assistant_call_msg,
                   tool_output_messages, error, hist, probe>>

\* line 244: messages.extend(tool_output_messages)
ExtendToolOutputs ==
    /\ pc = "ExtendingTranscript"
    /\ messages' = messages \o tool_output_messages
    /\ pc' = "AwaitingSecondCompletion"
    /\ UNCHANGED <<totals, city_query, tool_calls, assistant_call_msg,
                   tool_output_messages, error, hist, probe>>
\* tool invocations of the second response start another round of dispatches
SecondCompletion_ToolLoop ==
    /\ pc = "AwaitingSecondCompletion"
    /\ \E second \in {APIError} \cup SecondResponses :
         IF second.kind = "raise"
         THEN /\ pc' = "Crashed"
              /\ error' = Lit("APIError")
              /\ hist' = [hist EXCEPT !.calls = Append(@, Len(messages))]
              /\ UNCHANGED <<messages, totals, tool_calls, assistant_call_msg,
                             tool_output_messages>>
         ELSE LET u2 == Fold(totals, extract_usage(second))
                  final_msg == second.message
                  h == Received([hist EXCEPT !.calls = Append(@, Len(messages)),
                                             !.ignored = final_msg.tool_calls], second)
              IN  /\ totals' = u2.totals
                  /\ hist' = h
                  /\ IF Truthy(u2.raised)
                     THEN /\ pc' = "Crashed"
                          /\ error' = u2.raised
                          /\ UNCHANGED <<messages, tool_calls, assistant_call_msg,
                                         tool_output_messages>>
                     ELSE IF Truthy(final_msg.tool_calls)
                             /\ Len(hist.dispatched) <= Len(hist.requested)
                     THEN /\ pc' = "AwaitingToolExecution"
                          /\ tool_calls' = final_msg.tool_calls[2]
                          /\ assistant_call_msg' =
                                [role |-> "assistant", content |-> None, tool_calls |-> <<>>]
                          /\ tool_output_messages' = <<>>
                          /\ UNCHANGED <<messages, error>>
                     ELSE /\ pc' = "Idle"
                          /\ messages' =
                                Append(messages,
                                       [role |-> "assistant", content |-> final_msg.content])
                          /\ UNCHANGED <<error, tool_calls, assistant_call_msg,
                                         tool_output_messages>>
    /\ UNCHANGED <<city_query, probe>>

\* lines 246-254: the second model call, its usage, and the final assistant turn
SecondCompletion ==
    /\ pc = "AwaitingSecondCompletion"
    /\ \E second \in {APIError} \cup SecondResponses :
         IF second.kind = "raise"
         THEN /\ pc' = "Crashed"
              /\ error' = Lit("APIError")
              /\ hist' = [hist EXCEPT !.calls = Append(@, Len(messages))]
              /\ UNCHANGED <<messages, totals>>
         ELSE LET u2 == Fold(totals, extract_usage(second))
                  final_msg == second.message
                  h == Received([hist EXCEPT !.calls = Append(@, Len(messages)),
                                             !.ignored = final_msg.tool_calls], second)
              IN  /\ totals' = u2.totals
                  /\ hist' = h
                  /\ IF Truthy(u2.raised)
                     THEN /\ pc' = "Crashed"
                          /\ error' = u2.raised
                          /\ UNCHANGED messages
                     ELSE /\ pc' = "Idle"
                          /\ messages' =
                                Append(messages,
                                       [role |-> "assistant", content |-> final_msg.content])
                          /\ UNCHANGED error
    /\ UNCHANGED <<city_query, tool_calls, assistant_call_msg, tool_output_messages, probe>>

ReadInput == ReadInputFrom(SessionLines)

FirstCompletion == FirstCompletionFrom(FirstResponses(MaxToolCalls - hist.invocations))

Next ==
    \/ ReadInput
    \/ FirstCompletion
    \/ DispatchTool
    \/ AppendAssistantCall
    \/ ExtendToolOutputs
    \/ SecondCompletion

Spec == Init /\ [][Next]_vars

-----------------------------------------------------------------------------
(* The console commands: every line of InputLines, with plain model responses *)

ConsoleResponses(n) ==
    {Completion(c, t, UsageFull) :
        c \in Contents,
        t \in {None} \cup
              {PyList(<<ToolCall(1, [name |-> Lit(ToolName),
                                     arguments |-> JsonText(PyDict(EmptyDict))])>>) :
                  k \in 1..(IF n > 0 THEN 1 ELSE 0)}}

ConsoleReadInput == ReadInputFrom(InputLines)

ConsoleFirstCompletion ==
    FirstCompletionFrom(ConsoleResponses(MaxToolCalls - hist.invocations))

NextConsole ==
    \/ ConsoleReadInput
    \/ ConsoleFirstCompletion
    \/ DispatchTool
    \/ AppendAssistantCall
    \/ ExtendToolOutputs
    \/ SecondCompletion

SpecConsole == Init /\ [][NextConsole]_vars

-----------------------------------------------------------------------------
(* The tool dispatch of one invocation, for every response of the two services *)

Absent == <<"absent">>

\* the dict with the given keys, without those whose value is Absent
DictOf(d) == [k \in {x \in DOMAIN d : d[x] # Absent} |-> d[k]]

ProbeNames == {Lit(ToolName), Lit("get_time"), EmptyStr}
ProbeArguments ==
    {EmptyStr} \cup
    {JsonText(PyDict(a)) :
        a \in {EmptyDict, [city |-> Oslo], [city |-> PyInt(7)], [city |-> None],
               [city |-> Oslo, units |-> Lit("C")], [units |-> Lit("C")]}}

Coordinates == {Absent, None, PyNum(0), PyNum(599)}
GeoResponses ==
    {Raise(<<"timeout">>), Raise(<<>>), Body(EmptyDict), Body([results |-> PyList(<<>>)])}
    \cup {Body([results |-> PyList(<<DictOf([name |-> Oslo, country |-> Lit("Norway"),
                                             latitude |-> lat, longitude |-> lon])>>)]) :
             lat \in Coordinates, lon \in Coordinates}

Readings == {Absent, None, PyNum(-172), PyNum(0), PyNum(200)}
ForecastResponses ==
    {Raise(<<"timeout">>), Raise(<<>>), Body(EmptyDict)}
    \cup {Body([current |-> DictOf([temperature_2m |-> t, time |-> ts])]) :
             t \in Readings, ts \in {Absent, Lit("2025-01-01T12:00")}}

InitTool ==
    /\ Init!1 /\ Init!2 /\ Init!3 /\ Init!4 /\ Init!5
    /\ Init!6 /\ Init!7 /\ Init!8 /\ Init!9
    /\ probe \in [fn : {"dispatch"}, name : ProbeNames, arguments : ProbeArguments,
                  query : {Tokyo}, geo : GeoResponses, fc : ForecastResponses,
                  stage : {"input"}]

\* lines 228-231 for one invocation: parse, backfill, execute_tool
ProbeDispatch ==
    /\ probe.fn = "dispatch" /\ probe.stage = "input"
    /\ LET parsed == BackfilledArgs(probe.arguments, probe.query)
           run == execute_tool(probe.name, parsed.args, probe.geo, probe.fc)
           out == IF Truthy(parsed.raised)
                  THEN [raised |-> parsed.raised, args |-> parsed.args,
                        result |-> EmptyDict, geocoded |-> <<>>, fetched |-> <<>>]
                  ELSE [raised |-> run.raised, args |-> parsed.args,
                        result |-> run.result, geocoded |-> run.geocoded,
                        fetched |-> run.fetched]
       IN  probe' = Merge(probe, [stage |-> "done", out |-> out])
    /\ UNCHANGED <<pc, messages, totals, city_query, tool_calls, assistant_call_msg,
                   tool_output_messages, error, hist>>

SpecTool == InitTool /\ [][ProbeDispatch]_vars

-----------------------------------------------------------------------------
(* Token accounting of one response, for every shape of its usage block *)

MaxTokens == 1   \* largest token count a response reports

\* A count of the usage block: the attribute is missing, is None (how the
\* client library's response types hold a field the service left out), or an int
Counts == {Absent, None} \cup {PyInt(n) : n \in 0..MaxTokens}
Breakdowns ==
    {Absent, None, PyObj(EmptyDict)} \cup
    {PyObj([reasoning_tokens |-> r]) : r \in {None} \cup {PyInt(n) : n \in 0..MaxTokens}}
UsageBlocks ==
    {None} \cup
    {PyObj(DictOf([prompt_tokens |-> p, completion_tokens |-> c, total_tokens |-> t,
                   completion_tokens_details |-> d])) :
        p \in Counts, c \in Counts, t \in Counts, d \in Breakdowns}

InitUsage ==
    /\ Init!1 /\ Init!2 /\ Init!3 /\ Init!4 /\ Init!5
    /\ Init!6 /\ Init!7 /\ Init!8 /\ Init!9
    /\ probe \in [fn : {"usage"}, stage : {"input"},
                  totals : {ZeroTotals,
                            [prompt |-> 2, completion |-> 1, reasoning |-> 1, total |-> 3]},
                  completion : [usage : UsageBlocks]]

\* lines 213-214 for one response: extract_usage, then the four additions
ProbeUsage ==
    /\ probe.fn = "usage" /\ probe.stage = "input"
    /\ LET u == extract_usage(probe.completion)
       IN  probe' = Merge(probe, [stage |-> "done",
                                  out |-> [record |-> u, fold |-> Fold(probe.totals, u)]])
    /\ UNCHANGED <<pc, messages, totals, city_query, tool_calls, assistant_call_msg,
                   tool_output_messages, error, hist>>

SpecUsage == InitUsage /\ [][ProbeUsage]_vars

-----------------------------------------------------------------------------
(* c_to_f on pairs of Celsius readings given in tenths of a degree *)

MaxCelsius == 1000   \* largest reading in tenths of a degree (100.0), and -MaxCelsius the smallest

\* how far above the first reading the second one of a pair is, in tenths
Steps == {0, 1, 5, 18}

\* c * 9 / 5 + 32 of a reading in tenths is a whole number of fiftieths, never
\* halfway between two tenths, so round(x, 1) has no tie to break
InitConv ==
    /\ Init!1 /\ Init!2 /\ Init!3 /\ Init!4 /\ Init!5
    /\ Init!6 /\ Init!7 /\ Init!8 /\ Init!9
    /\ probe \in {[fn |-> "convert", stage |-> "input",
                   c1 |-> PyNum(n), c2 |-> PyNum(n + d)] :
                     n \in (-MaxCelsius)..MaxCelsius, d \in Steps}

\* line 114: c_to_f(temp_c), for the two readings of the pair
ProbeConvert ==
    /\ probe.fn = "convert" /\ probe.stage = "input"
    /\ probe' = Merge(probe, [stage |-> "done",
                              out |-> [f1 |-> c_to_f(probe.c1), f2 |-> c_to_f(probe.c2)]])
    /\ UNCHANGED <<pc, messages, totals, city_query, tool_calls, assistant_call_msg,
                   tool_output_messages, error, hist>>

SpecConv == InitConv /\ [][ProbeConvert]_vars

-----------------------------------------------------------------------------
(* Properties of the transcript and of the totals *)

IsToolCallTurn(m) == m.role = "assistant" /\ "tool_calls" \in DOMAIN m
IsTextTurn(m) == m.role = "assistant" /\ "tool_calls" \notin DOMAIN m

\* what the current turn (the last one, between turns) has appended
TurnSlice == SubSeq(messages, hist.start + 1, Len(messages))

\* a turn has run to its end and the loop is back at input(), or has left
TurnDone == pc \in {"Idle", "Closed"} /\ hist.turns > 0
TwoCallTurn == hist.requested # <<>>

(* C1: after a turn that took the two-call path on K >= 1 tool invocations, *)
(* the turns it appended are user, assistant with K invocations, K tool     *)
(* turns, assistant without invocations, and the i-th tool turn carries the *)
(* call id of the i-th invocation recorded, which is the i-th id the model  *)
(* emitted.                                                                 *)
C1_TwoCallSlice ==
    (TurnDone /\ TwoCallTurn) =>
        LET K == Len(hist.requested)
            s == TurnSlice
        IN  /\ Len(s) = K + 3
            /\ s[1].role = "user"
            /\ IsToolCallTurn(s[2])
            /\ Len(s[2].tool_calls) = K
            /\ \A i \in 1..K :
                  /\ s[2 + i].role = "tool"
                  /\ s[2 + i].tool_call_id = s[2].tool_calls[i].id
                  /\ s[2].tool_calls[i].id = hist.requested[i].id
            /\ IsTextTurn(s[K + 3])

C1_Witness == pc = "Idle" /\ hist.turns = 2 /\ Len(hist.requested) = 2

(* C2: while the session runs, and when it has been left, each of the four  *)
(* totals is the sum of that count over all the responses received, one per *)
(* one-call turn and two per two-call turn.                                 *)
C2_TotalsAreSums == pc # "Crashed" => totals = hist.received

\* a two-call turn and then a one-call turn have been accounted
C2_Witness ==
    /\ pc = "Idle" /\ hist.turns = 2 /\ Len(hist.calls) = 1
    /\ \E i \in 1..Len(messages) : IsToolCallTurn(messages[i])
    /\ totals.reasoning > 0 /\ totals.total > 6

(* C3: when a model call fails (the first, or the second after the tools    *)
(* have run), the turn is aborted, the loop is back at input(), and the     *)
(* transcript is what it was before the turn.                               *)
C3_FailedCallRestores ==
    error = Lit("APIError") => (pc = "Idle" /\ Len(messages) = hist.start)

(* C4: the dispatch of an invocation, whatever name and argument mapping    *)
(* the model emitted, returns a result and raises nothing; a name other     *)
(* than get_weather_by_city gives the unknown_tool failure.                 *)
C4_DispatchNeverRaises ==
    (probe.fn = "dispatch" /\ probe.stage = "done") =>
        /\ probe.out.raised = None
        /\ probe.name # Lit(ToolName) =>
              Get(probe.out.result, "error") = Lit("unknown_tool")

\* a tool result that reports one of the local failures
IsFailure(result) == "error" \in DOMAIN result

\* the dispatches of the current turn that ended in a local failure
FailedDispatches ==
    {i \in 1..Len(hist.dispatched) : IsFailure(hist.dispatched[i].result)}

(* C5: when a dispatch of the turn has ended in a local failure, the        *)
(* session does not terminate; no request is repeated; and when the turn is *)
(* over, the failure payload is the content of that invocation's tool turn  *)
(* and the second model call has been issued.                               *)
C5_FailureKeepsSession ==
    FailedDispatches # {} =>
        /\ pc # "Crashed"
        /\ \A i \in FailedDispatches :
              /\ Len(hist.dispatched[i].geocoded) <= 1
              /\ Len(hist.dispatched[i].fetched) <= 1
              /\ TurnDone =>
                    /\ TurnSlice[2 + i].role = "tool"
                    /\ TurnSlice[2 + i].content = JsonText(PyDict(hist.dispatched[i].result))
        /\ TurnDone => Len(hist.calls) = 2

RECURSIVE ValidFrom(_, _)
\* the turns of ms from the i-th on are whole blocks [user, assistant text] or
\* [user, assistant with K >= 1 invocations, K tool turns, assistant text],
\* the last block possibly cut short
ValidFrom(ms, i) ==
    IF i > Len(ms) THEN TRUE
    ELSE /\ ms[i].role = "user"
         /\ IF i = Len(ms) THEN TRUE
            ELSE IF IsTextTurn(ms[i + 1]) THEN ValidFrom(ms, i + 2)
            ELSE /\ IsToolCallTurn(ms[i + 1])
                 /\ LET K == Len(ms[i + 1].tool_calls)
                        last == IF Len(ms) < i + 1 + K THEN Len(ms) ELSE i + 1 + K
                    IN  /\ K >= 1
                        /\ \A j \in (i + 2)..last : ms[j].role = "tool"
                        /\ IF Len(ms) <= i + 1 + K THEN TRUE
                           ELSE IsTextTurn(ms[i + 2 + K]) /\ ValidFrom(ms, i + 3 + K)

(* C6: in every state, those in the middle of a turn and those after an     *)
(* exception included, the transcript is one system turn followed by a      *)
(* prefix of a sequence of blocks [user, assistant text] or [user,          *)
(* assistant with invocations, tool turns, assistant text].                 *)
C6_ValidPrefix == messages[1].role = "system" /\ ValidFrom(messages, 2)

\* in the middle of the second turn, between the assistant tool-call turn and its tool turns
C6_Witness == pc = "ExtendingTranscript" /\ hist.turns = 2 /\ Len(tool_output_messages) = 2

(* C7: when geocode_city returns a failure (no match, or an exception of    *)
(* the request), the dispatch does not call fetch_weather, and its result   *)
(* is a failure that carries the error of the geocoding and the requested   *)
(* city, and no temperature.                                                *)
C7_GeoFailureShortCircuits ==
    (probe.fn = "dispatch" /\ probe.stage = "done" /\ probe.out.geocoded # <<>>
        /\ IsFailure(probe.out.geocoded[1])) =>
        /\ probe.out.raised = None
        /\ probe.out.fetched = <<>>
        /\ IsFailure(probe.out.result)
        /\ probe.out.result.error = probe.out.geocoded[1].error
        /\ probe.out.result.city = probe.out.args.city
        /\ DOMAIN probe.out.result \cap {"temperature_c", "temperature_f"} = {}

\* the geocoding request raised with an empty message, for a city the model named
C7_Witness ==
    /\ probe.fn = "dispatch" /\ probe.stage = "done"
    /\ probe.geo = Raise(<<>>) /\ probe.out.geocoded # <<>>
    /\ probe.out.result = [city |-> Oslo, error |-> EmptyStr]

\* the mapping the model emitted for an invocation that was dispatched
EmittedArgs(tc) ==
    IF Truthy(tc.function.arguments) THEN tc.function.arguments[2][2] ELSE EmptyDict

(* C8: every invocation dispatched in the turn is dispatched under the name *)
(* the model gave and with the mapping the model gave, to which city = the  *)
(* turn's user utterance is added when the mapping has no city; and the     *)
(* assistant turn records, per invocation, the arguments dispatched.        *)
C8_Backfill ==
    hist.turns > 0 =>
        /\ Len(hist.dispatched) <= Len(hist.requested)
        /\ \A i \in 1..Len(hist.dispatched) :
              LET emitted == EmittedArgs(hist.requested[i])
                  d == hist.dispatched[i]
              IN  /\ d.name = hist.requested[i].function.name
                  /\ "city" \in DOMAIN emitted => d.args = emitted
                  /\ "city" \notin DOMAIN emitted =>
                        d.args = Merge(emitted, [city |-> TurnSlice[1].content])
        /\ (Len(TurnSlice) >= 2 /\ IsToolCallTurn(TurnSlice[2])) =>
              /\ Len(TurnSlice[2].tool_calls) = Len(hist.dispatched)
              /\ \A i \in 1..Len(hist.dispatched) :
                    LET rec == TurnSlice[2].tool_calls[i].function
                    IN  /\ rec.name = hist.dispatched[i].name
                        /\ rec.arguments = JsonText(PyDict(hist.dispatched[i].args))

\* a turn whose first invocation had no city and whose second named one
C8_Witness ==
    /\ pc = "Idle" /\ Len(hist.dispatched) = 2
    /\ EmittedArgs(hist.requested[1]) = EmptyDict
    /\ hist.dispatched[1].args = [city |-> PyStr(Tokyo)]
    /\ hist.dispatched[2].args = [city |-> Oslo]

\* the inputs that end the session: end of input, a blank line (empty or of
\* white space only), an exit command
EndsSession(in) ==
    \/ in.kind = "eof"
    \/ /\ in.kind = "line"
       /\ \/ \A i \in 1..Len(in.text) : in.text[i] \in Whitespace
          \/ in.text \in {<<"/","e","x","i","t">>, <<"e","x","i","t">>,
                          <<"q","u","i","t">>, <<":","q">>}

(* C9: from Idle, end of input, a blank line, and each of /exit, exit,      *)
(* quit, :q leave the loop, and that step issues no model call and leaves   *)
(* the transcript and the totals as they were.                              *)
C9_ExitFrame ==
    [][(pc = "Idle" /\ EndsSession(hist'.input)) =>
          /\ pc' = "Closed"
          /\ messages' = messages
          /\ totals' = totals
          /\ hist'.calls = hist.calls
          /\ hist'.received = hist.received]_vars

\* the session was left with :q after a turn
C9_Witness ==
    /\ pc = "Closed" /\ hist.input = Line(<<":","q">>)
    /\ hist.turns > 0 /\ totals.total > 0

(* C10: whichever counts of the usage block are absent (the block itself,   *)
(* a count, the breakdown, the reasoning count in it), extract_usage gives  *)
(* four non-negative integers, 0 for each absent count, and adding them to  *)
(* the totals raises nothing.                                               *)
C10_UsageDefaultsToZero ==
    (probe.fn = "usage" /\ probe.stage = "done") =>
        /\ \A k \in DOMAIN probe.out.record :
              /\ IsInt(probe.out.record[k])
              /\ probe.out.record[k][2] = Reported(probe.completion, k)
              /\ probe.out.record[k][2] >= 0
        /\ probe.out.fold.raised = None

(* C11: in every state the transcript begins with the system turn and holds *)
(* no other system turn, and every step leaves the transcript it found as a *)
(* prefix of the new one: nothing is removed, reordered or modified.        *)
C11_AppendOnly ==
    /\ [](/\ messages[1].role = "system"
          /\ \A i \in 2..Len(messages) : messages[i].role # "system")
    /\ [][/\ Len(messages') >= Len(messages)
          /\ SubSeq(messages', 1, Len(messages)) = messages]_vars

\* a two-call turn and a turn after it have been appended
C11_Witness ==
    /\ pc = "Idle" /\ hist.turns = 2 /\ Len(messages) >= 7
    /\ \E i \in 1..Len(messages) : messages[i].role = "tool"

(* C12: every assistant turn of the transcript that carries no tool         *)
(* invocations has text content that is not null, whatever the responses    *)
(* were: a first response without invocations and without text, a second    *)
(* response with text, without text, or asking for tools again.             *)
C12_TextTurnsHaveContent ==
    \A i \in 1..Len(messages) :
        IsTextTurn(messages[i]) => messages[i].content # None

(* C13: a user turn issues one model call when its first response carries   *)
(* no tool invocations and two when it does, never a third; only the        *)
(* invocations of the first response are dispatched and recorded, those of  *)
(* the second response are ignored; and the second call is issued when the  *)
(* assistant tool-call turn and all K tool turns are in the transcript.     *)
C13_CallsPerTurn ==
    LET K == Len(hist.requested)
    IN  /\ Len(hist.calls) <= (IF TwoCallTurn THEN 2 ELSE 1)
        /\ Len(hist.dispatched) <= K
        /\ (TurnDone /\ ~TwoCallTurn) => (Len(hist.calls) = 1 /\ hist.dispatched = <<>>)
        /\ Len(hist.calls) = 2 =>
              /\ Len(hist.dispatched) = K
              /\ hist.calls[2] = hist.start + 2 + K
              /\ IsToolCallTurn(messages[hist.start + 2])
              /\ \A i \in 1..K : messages[hist.start + 2 + i].role = "tool"
        /\ (TurnDone /\ TwoCallTurn) =>
              /\ Len(hist.calls) = 2
              /\ Len(TurnSlice) = K + 3
              /\ \A i \in 1..Len(TurnSlice) : IsToolCallTurn(TurnSlice[i]) => i = 2

\* a two-call turn has ended whose second response asked for a tool again
C13_Witness ==
    /\ pc = "Idle" /\ Len(hist.calls) = 2 /\ Len(hist.requested) = 2
    /\ Truthy(hist.ignored)

(* C14: every result execute_tool returns has one of two shapes: a success  *)
(* with temperature_c and temperature_f and no error, or a failure with an  *)
(* error that is a non-empty text and no temperature; this for every text   *)
(* the exception of a failed request can carry, the empty one included.     *)
C14_TwoShapes ==
    (probe.fn = "dispatch" /\ probe.stage = "done" /\ probe.out.raised = None) =>
        LET r == probe.out.result
            temps == DOMAIN r \cap {"temperature_c", "temperature_f"}
        IN  \/ /\ temps = {"temperature_c", "temperature_f"}
               /\ "error" \notin DOMAIN r
            \/ /\ temps = {}
               /\ "error" \in DOMAIN r
               /\ r.error[1] = "str" /\ r.error[2] # <<>>

\* the first match of the geocoding response of the probe, {} when there is none
ProbeFirst ==
    IF probe.geo.kind = "ok" /\ Truthy(Get(probe.geo.data, "results"))
    THEN probe.geo.data.results[2][1] ELSE EmptyDict

\* the current block of the forecast response of the probe, {} when there is none
ProbeCurrent ==
    IF probe.fc.kind = "ok" /\ "current" \in DOMAIN probe.fc.data
    THEN probe.fc.data.current ELSE EmptyDict

\* the weather tool was dispatched on a city alone, and returned
ProbeWeatherDone ==
    /\ probe.fn = "dispatch" /\ probe.stage = "done"
    /\ probe.name = Lit(ToolName)
    /\ probe.out.raised = None

\* the geocoding of the probe gave both coordinates
ProbeHasCoordinates ==
    /\ DOMAIN ProbeFirst # {}
    /\ Get(ProbeFirst, "latitude") # None
    /\ Get(ProbeFirst, "longitude") # None

(* C15: when the geocoding gives coordinates and the forecast gives a       *)
(* Celsius reading t, the dispatch of get_weather_by_city on {city} returns *)
(* the requested city, the resolved name, country, latitude and longitude   *)
(* of the geocoding, temperature_c = t, temperature_f = c_to_f(t), which is *)
(* t * 9/5 + 32 to the nearest tenth and 68.0 for 20, and the time the      *)
(* forecast gave.                                                           *)
C15_SuccessRoundTrip ==
    (ProbeWeatherDone /\ ProbeHasCoordinates
        /\ Get(ProbeCurrent, "temperature_2m") # None) =>
        LET r == probe.out.result
            t == ProbeCurrent.temperature_2m
        IN  /\ DOMAIN r = {"city", "resolved_name", "country", "latitude", "longitude",
                           "temperature_c", "temperature_f", "timestamp"}
            /\ r.city = probe.out.args.city
            /\ r.resolved_name = Get(ProbeFirst, "name")
            /\ r.country = Get(ProbeFirst, "country")
            /\ r.latitude = ProbeFirst.latitude
            /\ r.longitude = ProbeFirst.longitude
            /\ r.temperature_c = t
            /\ r.temperature_f = c_to_f(t)
            /\ 10 * r.temperature_f[2] - (18 * t[2] + 3200) \in -4..4
            /\ t = PyNum(200) => r.temperature_f = PyNum(680)
            /\ r.timestamp = Get(ProbeCurrent, "time")

\* 20.0 Celsius at latitude 0 for the city the user typed
C15_Witness ==
    /\ ProbeWeatherDone /\ ProbeHasCoordinates
    /\ probe.out.args = [city |-> PyStr(Tokyo)]
    /\ ProbeFirst.latitude = PyNum(0)
    /\ Get(probe.out.result, "temperature_c") = PyNum(200)
    /\ Get(probe.out.result, "temperature_f") = PyNum(680)
    /\ Get(probe.out.result, "timestamp") # None

(* C16: for every Celsius reading c with one decimal place in the range,    *)
(* c_to_f(c) is the tenth nearest to c * 9/5 + 32; c_to_f is monotonic; and *)
(* c_to_f(0) = 32.0 and c_to_f(100) = 212.0.                                *)
C16_Fahrenheit ==
    (probe.fn = "convert" /\ probe.stage = "done") =>
        LET c == probe.c1[2]
            f == probe.out.f1
        IN  /\ f[1] = "num"
            \* in hundredths: the exact value is 18 c + 3200, the result 10 f
            /\ 10 * f[2] - (18 * c + 3200) \in -5..5
            /\ probe.out.f1[2] <= probe.out.f2[2]
            /\ c = 0 => f = PyNum(320)
            /\ c = 1000 => f = PyNum(2120)

\* 100.0 Celsius has been converted, with a reading 0.1 above it
C16_Witness ==
    /\ probe.fn = "convert" /\ probe.stage = "done"
    /\ probe.c1 = PyNum(1000) /\ probe.c2 = PyNum(1001)
    /\ probe.out.f1 = PyNum(2120) /\ probe.out.f2 = PyNum(2122)

(* C17: while the invocations of a turn are being dispatched, the           *)
(* transcript already holds the turn's assistant tool-call turn, appended   *)
(* before the first dispatch, and one tool turn for every invocation        *)
(* dispatched so far, each appended before the next dispatch.               *)
C17_TranscriptDuringDispatch ==
    pc = "AwaitingToolExecution" =>
        /\ Len(messages) = hist.start + 2 + Len(hist.dispatched)
        /\ IsToolCallTurn(messages[hist.start + 2])
        /\ \A i \in 1..Len(hist.dispatched) :
              /\ messages[hist.start + 2 + i].role = "tool"
              /\ messages[hist.start + 2 + i].tool_call_id = hist.requested[i].id

(* C18: when the geocoding finds a match, then if its latitude or longitude *)
(* is absent the dispatch returns the coordinates_missing failure and makes *)
(* no forecast request; and if both are there, 0 included, it makes exactly *)
(* one forecast request, with those coordinates, and returns the outcome of *)
(* it, success or failure, together with the fields of the geocoding.       *)
C18_CoordinatesDecideFetch ==
    (ProbeWeatherDone /\ DOMAIN ProbeFirst # {}) =>
        LET r == probe.out.result
            lat == Get(ProbeFirst, "latitude")
            lon == Get(ProbeFirst, "longitude")
            outcome == fetch_weather(lat, lon, probe.fc)
        IN  /\ r.city = probe.out.args.city
            /\ r.resolved_name = Get(ProbeFirst, "name")
            /\ r.country = Get(ProbeFirst, "country")
            /\ IF lat = None \/ lon = None
               THEN /\ probe.out.fetched = <<>>
                    /\ Get(r, "error") = Lit("coordinates_missing")
                    /\ DOMAIN r \cap {"temperature_c", "temperature_f"} = {}
               ELSE /\ probe.out.fetched = <<<<lat, lon>>>>
                    /\ DOMAIN r = {"city", "resolved_name", "country"} \cup DOMAIN outcome
                    /\ \A k \in DOMAIN outcome : r[k] = outcome[k]

\* latitude 0.0: the forecast was requested once, and its failure is the result
C18_Witness ==
    /\ ProbeWeatherDone /\ ProbeHasCoordinates
    /\ ProbeFirst.latitude = PyNum(0)
    /\ probe.fc = Raise(<<"timeout">>)
    /\ probe.out.fetched = <<<<PyNum(0), ProbeFirst.longitude>>>>
    /\ Get(probe.out.result, "error") = PyStr(<<"timeout">>)
    /\ Get(probe.out.result, "country") = Lit("Norway")

\* the lines that ask for the help text
AsksHelp(in) ==
    /\ in.kind = "line"
    /\ in.text \in {<<"/","h","e","l","p">>, <<"h","e","l","p">>, <<"?">>}

(* C19: from Idle, each of /help, help, ? leaves the session in Idle with   *)
(* the transcript and the totals as they were, and issues no model call and *)
(* no dispatch; nothing the next input depends on has changed: only the     *)
(* line just read differs, which the next read replaces.                    *)
C19_HelpFrame ==
    [][(pc = "Idle" /\ AsksHelp(hist'.input)) =>
          /\ pc' = "Idle"
          /\ messages' = messages
          /\ totals' = totals
          /\ hist' = [hist EXCEPT !.input = hist'.input]
          /\ UNCHANGED <<tool_calls, assistant_call_msg, tool_output_messages,
                         error, probe>>]_vars

\* "?" was typed after a turn
C19_Witness ==
    /\ pc = "Idle" /\ hist.input = Line(<<"?">>)
    /\ hist.turns > 0 /\ totals.total > 0

\* a text in lower case: the letters of Upper replaced by those of LowerCase
Folded(s) ==
    [i \in 1..Len(s) |->
        IF \E j \in 1..Len(Upper) : Upper[j] = s[i]
        THEN LowerCase[CHOOSE j \in 1..Len(Upper) : Upper[j] = s[i]]
        ELSE s[i]]

(* C20: every user turn of the transcript has content that is not empty,    *)
(* neither begins nor ends with white space, and is in no letter case one   *)
(* of the exit or help commands; so a line of white space, EXIT or " Quit " *)
(* never becomes a user turn.                                               *)
C20_UserTurnsAreTrimmedPlaces ==
    \A i \in 1..Len(messages) :
        messages[i].role = "user" =>
            LET t == messages[i].content[2]
            IN  /\ messages[i].content[1] = "str"
                /\ t # <<>>
                /\ t[1] \notin {" ", "\t"}
                /\ t[Len(t)] \notin {" ", "\t"}
                /\ Folded(t) \notin
                      {<<"/","e","x","i","t">>, <<"e","x","i","t">>, <<"q","u","i","t">>,
                       <<":","q">>, <<"/","h","e","l","p">>, <<"h","e","l","p">>, <<"?">>}

\* " Paris " became the user turn Paris, and " Quit " then closed the session
C20_Witness ==
    /\ pc = "Closed"
    /\ hist.input = Line(<<" ","Q","u","i","t"," ">>)
    /\ \E i \in 1..Len(messages) :
          messages[i].role = "user" /\ messages[i].content = PyStr(Paris)

====
